---- MODULE Spec2Model ----
(***************************************************************************)
(* Lifecycle scheduler of lite-engine: class Context (context.ts) driving  *)
(* Component objects (component.ts) through addComponent / update /        *)
(* removeComponent / clear, with asynchronous start hooks.                 *)
(*                                                                         *)
(* Scheduling model.  The host calls update() from the renderer's          *)
(* animation loop and every other entry point from an event handler, so    *)
(* each action below is one macrotask.  Promise reactions are microtasks:  *)
(* they run after the macrotask that settled the promise and before the    *)
(* next macrotask.  A settlement together with the reactions it triggers   *)
(* (the then/catch callbacks of processPendingOperations and, when the     *)
(* last promise of a Promise.all settles, the continuation after the       *)
(* await) is therefore one action, Settle.  A promise that is already      *)
(* settled when start() returns has its reactions run right after the      *)
(* update() that called start(): Settle taken immediately after Update.    *)
(***************************************************************************)
EXTENDS Integers, Sequences, FiniteSets, TLC

\* Number of component objects the host creates.
NComp == 2

Comps == 1..NComp

\* The component classes of the model. "bare" defines no hook at all; the
\* others define update and dispose, and differ in what start does when
\* called: absent ("none"), returns normally ("sync"), throws ("throw"),
\* returns a promise ("async").
Kinds == {"bare", "none", "sync", "throw", "async"}

Rank(k) ==
    CASE k = "bare" -> 0 [] k = "none" -> 1 [] k = "sync" -> 2 [] k = "throw" -> 3
      [] OTHER -> 4

\* Number of components of the study of long initializations.
NAsync == 3

AsyncComps == 1..NAsync

\* User handler functions and calls of on()/once() of the event bus study.
NHandler == 2
MaxSubs == 3

Handlers == 1..NHandler

\* Event names; the empty string is a key like any other.
Events == {"", "a"}

\* Clock samples in milliseconds between two frames (Clock.getDelta).
Elapsed == {16}

\* Clock samples for the study of the clamp: a clock that has not advanced,
\* a regular frame, and frames after the tab was in the background.
ElapsedWide == {0, 16, 101, 250, 5000}

\* Math.min(.1, dt), in milliseconds.
MaxDelta == 100

VARIABLES
    kind,             \* c -> the class of c (fixed per object)
    spawns,           \* c -> the component c.start() registers, 0 for none (fixed)
    ctxSet,           \* Component._ctx is defined
    enabled,          \* Component._enabled
    components,       \* Component._components, in insertion order
    parent,           \* Component._parent, 0 when undefined
    pendingStart,     \* Context.pendingStart (Set, insertion order)
    activeComponents, \* keys of Context.activeComponents (Map, insertion order)
    isInitialized,    \* ComponentState.isInitialized of c's state object
    pendingRemoval,   \* Context.pendingRemoval (Set, insertion order)
    promise,          \* state of the promise returned by c.start()
    awaiting,         \* suspended processPendingOperations calls: the unsettled
                      \* promises each one's Promise.all still waits for
    disposeCount,     \* history: calls of c.dispose so far
    startCount,       \* history: calls of c.start so far
    addedBy,          \* history: parent through whose addComponent c was registered
    requested,        \* history: c is tracked, and was initializing when its
                      \* removal was requested
    frames,           \* history: update() calls c has stayed in pendingRemoval for
    op,               \* history: the last operation (and Context.deltaTime)
    log,              \* history: hook calls and reports of the last operation
    listeners,        \* EventBus.listeners: event -> its Set object, 0 when absent
    busSets,          \* the Set objects on() created, each in insertion order
    subs,             \* the closures on() returned: event, captured Set, handler
    fired,            \* history: calls of the user handler through once-wrapper k
    live,             \* history: handlers subscribed to an event and not removed since
    busOp,            \* history: the last EventBus operation
    busLog            \* history: handler calls and reports of the last emit

lifeVars == <<kind, spawns, ctxSet, enabled, components, parent,
              pendingStart, activeComponents,
              isInitialized, pendingRemoval, promise, awaiting,
              disposeCount, startCount, addedBy, requested, frames, op, log>>

busVars == <<listeners, busSets, subs, fired, live, busOp, busLog>>

vars == <<lifeVars, busVars>>

\* ---------------------------------------------------------------- helpers

Range(s) == {s[i] : i \in 1..Len(s)}

\* Set.prototype.add on an insertion-ordered Set.
SetAdd(s, x) == IF x \in Range(s) THEN s ELSE Append(s, x)

\* Set.prototype.delete / Map.prototype.delete.
SetDelete(s, x) == SelectSeq(s, LAMBDA y : y # x)

\* Variant: a new key is entered in front of the others.
MapSetFront(s, x) == IF x \in Range(s) THEN s ELSE <<x>> \o s

\* Map.prototype.set on the key order: an existing key keeps its position.
MapSet(s, x) == SetAdd(s, x)

Min(a, b) == IF a < b THEN a ELSE b

Ev(what, c) == <<what, c>>

\* The last operation: its kind, whether it threw to its caller, and for
\* update() the delta it passed to the update hooks (Context.deltaTime).
Op(name, threw, dt) == [name |-> name, threw |-> threw, dt |-> dt]

\* Variant: the delta of the clock is passed on as it is.
DeltaTimeUnclamped(elapsed) == elapsed

\* this.deltaTime = Math.min(.1, this.clock.getDelta())
DeltaTime(elapsed) == Min(MaxDelta, elapsed)

\* The mutable part of the program an operation works on.
Cur == [ps |-> pendingStart, ac |-> activeComponents, init |-> isInitialized,
        pr |-> pendingRemoval, prom |-> promise, en |-> enabled,
        dc |-> disposeCount, sc |-> startCount, ctx |-> ctxSet, lg |-> <<>>,
        batch |-> {}, exc |-> FALSE]

\* `if (component.start)`, `component.update`, `if (component.dispose)`
HasStart(c) == kind[c] \notin {"bare", "none"}
HasUpdate(c) == kind[c] # "bare"
HasDispose(c) == kind[c] # "bare"

\* --------------------------------------------------------------- exceptions

\* A hook is called.
Call(st, what, c) == [st EXCEPT !.lg = Append(@, Ev(what, c))]

\* The hook throws: an exception is in flight (exc) until a catch block or
\* the rejection of an async function takes it.
Throw(st, what, c) == [st EXCEPT !.lg = Append(@, Ev(what, c)), !.exc = TRUE]

\* catch (error) { console.error(`Error initializing component:`, error);
\*                 this.pendingRemoval.add(component); continue; }
CatchStart(st, c) ==
    [st EXCEPT !.exc = FALSE,
               !.lg = Append(@, Ev("Error initializing component:", c)),
               !.pr = SetAdd(st.pr, c)]

\* Variant: removeComponentInternal calls dispose outside any try block.
CatchDisposeRethrow(st, c) == st

\* catch (error) { console.error(`Error disposing component:`, error); }
CatchDispose(st, c) ==
    [st EXCEPT !.exc = FALSE,
               !.lg = Append(@, Ev("Error disposing component:", c))]

\* Variant: the catch block reports the error and leaves the component
\* enabled.
CatchUpdateKeepEnabled(st, c) ==
    [st EXCEPT !.exc = FALSE,
               !.lg = Append(@, Ev("Error updating component:", c))]

\* Variant: updateComponents calls update outside any try block.
CatchUpdateRethrow(st, c) == st

\* Variant: the catch block reports the error and queues the component for
\* removal.
CatchUpdateRemoves(st, c) ==
    [st EXCEPT !.exc = FALSE,
               !.lg = Append(@, Ev("Error updating component:", c)),
               !.en[c] = FALSE,
               !.pr = SetAdd(st.pr, c)]

\* catch (error) { console.error(`Error updating component:`, error);
\*                 component.isEnabled = false; }
CatchUpdate(st, c) ==
    [st EXCEPT !.exc = FALSE,
               !.lg = Append(@, Ev("Error updating component:", c)),
               !.en[c] = FALSE]

\* An exception that leaves processPendingOperations rejects the promise
\* the async function returned; update() and clear() both attach a catch
\* callback that reports it, so it never reaches their caller.
Rejected(st) ==
    IF st.exc
    THEN [st EXCEPT !.exc = FALSE, !.lg = Append(@, Ev("Error processing pending operations:", 0))]
    ELSE st

\* ------------------------------------------------- processPendingOperations

\* Variant: the start hook overwrites the ctx field, and the duplicate check
\* looks at the active map only.
AddComponentOnActiveOnly(st, d) ==
    IF d \in Range(st.ac)
    THEN [st EXCEPT !.exc = TRUE]
    ELSE [st EXCEPT !.ctx[d] = TRUE, !.ps = Append(st.ps, d)]

\* Context.addComponent(d) called from inside a hook, on the working state:
\* it throws on a duplicate and when d already has a context.
AddComponentOn(st, d) ==
    IF d \in Range(st.ac) \/ d \in Range(st.ps) \/ st.ctx[d]
    THEN [st EXCEPT !.exc = TRUE]
    ELSE [st EXCEPT !.ctx[d] = TRUE, !.ps = SetAdd(st.ps, d)]

\* component.start(): a start hook that registers a component does so with
\* this.ctx.addComponent before anything else, and an exception of that
\* call leaves the hook; the hook of class "throw" throws at its end.
StartHook(st, c) ==
    LET called == Call([st EXCEPT !.sc[c] = @ + 1], "start", c)
        body == IF spawns[c] = 0 THEN called ELSE AddComponentOn(called, spawns[c])
    IN  IF body.exc \/ kind[c] = "throw"
        THEN Throw(body, "start throws", c)
        ELSE body

\* Variant: a component without start hook is entered in the active map
\* but never marked initialized.
StartOneNoStartInert(st, c) ==
    LET ran == StartHook(st, c)
    IN  IF ~HasStart(c)
        THEN [st EXCEPT !.init[c] = FALSE, !.ac = MapSet(st.ac, c)]
        ELSE IF ran.exc THEN CatchStart(ran, c)
        ELSE IF kind[c] = "async"
        THEN [ran EXCEPT !.prom[c] = "pending", !.batch = @ \cup {c},
                         !.init[c] = FALSE, !.ac = MapSet(ran.ac, c)]
        ELSE [ran EXCEPT !.init[c] = TRUE, !.ac = MapSet(ran.ac, c)]

\* One turn of the loop over pendingStart: the start hook of c is called and
\* c is entered in activeComponents, or queued for removal when it throws.
StartOne(st, c) ==
    LET ran == StartHook(st, c)
    IN  IF ~HasStart(c)
        THEN [st EXCEPT !.init[c] = TRUE, !.ac = MapSet(st.ac, c)]
        ELSE IF ran.exc THEN CatchStart(ran, c)
        ELSE IF kind[c] = "async"
        THEN [ran EXCEPT !.prom[c] = "pending", !.batch = @ \cup {c},
                         !.init[c] = FALSE, !.ac = MapSet(ran.ac, c)]
        ELSE [ran EXCEPT !.init[c] = TRUE, !.ac = MapSet(ran.ac, c)]

\* for (const component of this.pendingStart) { ... }; this.pendingStart.clear()
RECURSIVE StartLoop(_, _)
StartLoop(st, i) ==
    IF i > Len(st.ps)
    THEN [st EXCEPT !.ps = <<>>]
    ELSE StartLoop(StartOne(st, st.ps[i]), i + 1)

\* Variant: pendingRemoval is an array and removeComponent pushes onto it.
RemoveComponentOnPush(st, c) ==
    IF c \notin Range(st.ac) THEN st ELSE [st EXCEPT !.pr = Append(st.pr, c)]

\* Context.removeComponent on the working state.
RemoveComponentOn(st, c) ==
    IF c \notin Range(st.ac) THEN st ELSE [st EXCEPT !.pr = SetAdd(st.pr, c)]

\* removeComponent on every element of a sequence, in order: the children
\* loop of removeComponentInternal and the loop of clear().
RECURSIVE RemoveEach(_, _, _)
RemoveEach(st, kids, i) ==
    IF i > Len(kids) THEN st
    ELSE RemoveEach(RemoveComponentOn(st, kids[i]), kids, i + 1)

\* Component.getComponents
GetComponents(c) == components[c]

\* Variant: activeComponents.delete sits inside the try block, after the
\* call of dispose.
RemoveComponentInternalDeleteInTry(st, c, thrD) ==
    LET called == Call([st EXCEPT !.dc[c] = @ + 1], "dispose", c)
    IN  IF HasDispose(c) /\ c \in thrD
        THEN RemoveEach(CatchDispose(Throw(called, "dispose throws", c), c),
                        GetComponents(c), 1)
        ELSE RemoveEach([(IF HasDispose(c) THEN called ELSE st)
                            EXCEPT !.ac = SetDelete(@, c)],
                        GetComponents(c), 1)

\* Context.removeComponentInternal; thrD: the components whose dispose throws.
RemoveComponentInternal(st, c, thrD) ==
    LET called == Call([st EXCEPT !.dc[c] = @ + 1], "dispose", c)
        disposed ==
            IF ~HasDispose(c) THEN st
            ELSE IF c \in thrD THEN CatchDispose(Throw(called, "dispose throws", c), c)
            ELSE called
        dropped == [disposed EXCEPT !.ac = SetDelete(@, c)]
    IN  IF disposed.exc THEN disposed
        ELSE RemoveEach(dropped, GetComponents(c), 1)

\* for (const component of this.pendingRemoval) { ... }; this.pendingRemoval.clear()
\* A Set iteration also visits the elements added while it runs.
RECURSIVE RemovalLoop(_, _, _)
RemovalLoop(st, i, thrD) ==
    IF st.exc THEN st
    ELSE IF i > Len(st.pr)
    THEN [st EXCEPT !.pr = <<>>]
    ELSE RemovalLoop(RemoveComponentInternal(st, st.pr[i], thrD), i + 1, thrD)

\* Context.processPendingOperations up to the point where the caller gets
\* control back: the whole function when no start hook returned a promise,
\* otherwise everything before `await Promise.all(startPromises)`.
ProcessPendingOperations(st, thrD) ==
    LET started == StartLoop([st EXCEPT !.batch = {}], 1)
    IN  IF started.batch # {} THEN started
        ELSE Rejected(RemovalLoop(started, 1, thrD))

\* ---------------------------------------------------------- updateComponents

\* Variant: the update phase does not look at isInitialized.
ShouldUpdateIgnoringInit(st, c) == st.en[c] /\ HasUpdate(c)

\* Variant: the update phase does not look at isEnabled.
ShouldUpdateIgnoringEnabled(st, c) == st.init[c] /\ HasUpdate(c)

\* `component.isEnabled && state.isInitialized && component.update`
ShouldUpdate(st, c) == st.en[c] /\ st.init[c] /\ HasUpdate(c)

\* One turn of the loop of updateComponents.
UpdateOne(st, c, thrU) ==
    IF ~ShouldUpdate(st, c) THEN st
    ELSE IF c \in thrU
    THEN CatchUpdate(Throw(Call(st, "update", c), "update throws", c), c)
    ELSE Call(st, "update", c)

\* Context.updateComponents; thrU: the components whose update throws.
RECURSIVE UpdateComponents(_, _, _)
UpdateComponents(st, i, thrU) ==
    IF st.exc \/ i > Len(st.ac) THEN st
    ELSE UpdateComponents(UpdateOne(st, st.ac[i], thrU), i + 1, thrU)

\* Writes a working state back to the variables.
Commit(st) ==
    /\ pendingStart' = st.ps
    /\ activeComponents' = st.ac
    /\ isInitialized' = st.init
    /\ pendingRemoval' = st.pr
    /\ promise' = st.prom
    /\ enabled' = st.en
    /\ disposeCount' = st.dc
    /\ startCount' = st.sc
    /\ ctxSet' = st.ctx
    /\ log' = st.lg

\* A suspended processPendingOperations is added for the promises it awaits.
Suspend(st) == IF st.batch = {} THEN awaiting ELSE awaiting \cup {st.batch}

\* ------------------------------------------------------------------ actions

\* The host has created the components U and a Context without stats
\* display.
InitHost(U) ==
    /\ ctxSet = [c \in U |-> FALSE]
    /\ enabled = [c \in U |-> TRUE]
    /\ components = [c \in U |-> <<>>]
    /\ parent = [c \in U |-> 0]
    /\ pendingStart = <<>>
    /\ activeComponents = <<>>
    /\ isInitialized = [c \in U |-> FALSE]
    /\ pendingRemoval = <<>>
    /\ promise = [c \in U |-> "none"]
    /\ awaiting = {}
    /\ disposeCount = [c \in U |-> 0]
    /\ startCount = [c \in U |-> 0]
    /\ addedBy = [c \in U |-> 0]
    /\ requested = [c \in U |-> FALSE]
    /\ frames = [c \in U |-> 0]
    /\ op = Op("new", FALSE, 0)
    /\ log = <<>>
    /\ listeners = [e \in Events |-> 0]
    /\ busSets = <<>>
    /\ subs = <<>>
    /\ fired = [k \in 1..MaxSubs |-> 0]
    /\ live = [e \in Events |-> {}]
    /\ busOp = [name |-> "new", event |-> "", threw |-> FALSE]
    /\ busLog = <<>>

\* The host has created NComp components. Components are interchangeable,
\* so they are numbered in the order of their classes. No start hook
\* registers a component.
Init ==
    /\ kind \in {f \in [Comps -> Kinds] :
                    \A i \in 1..(NComp - 1) : Rank(f[i]) <= Rank(f[i + 1])}
    /\ spawns = [c \in Comps |-> 0]
    /\ InitHost(Comps)

Fixed == UNCHANGED <<kind, spawns, components, parent, busVars>>

\* The histories of removal requests are kept in the study of long
\* initializations only.
Unobserved == UNCHANGED <<requested, frames>>

\* Variant: the duplicate check looks at pendingStart only and ctx is a plain
\* field.
AddComponentThrowsPendingOnly(c) == c \in Range(pendingStart)

\* Variant: the duplicate check alone, ctx is a plain field.
AddComponentThrowsDuplicateOnly(c) ==
    c \in Range(activeComponents) \/ c \in Range(pendingStart)

\* Whether Context.addComponent(c) throws: the duplicate check, then the
\* setter of Component.ctx.
AddComponentThrows(c) ==
    \/ c \in Range(activeComponents) \/ c \in Range(pendingStart)
    \/ ctxSet[c]

\* Context.addComponent(c), called by the host (by = 0) or through
\* Component.addComponent of the component by.
DoAddComponent(c, by) ==
    /\ op' = Op("addComponent", AddComponentThrows(c), 0)
    /\ log' = <<>>
    /\ IF AddComponentThrows(c)
       THEN UNCHANGED <<ctxSet, pendingStart, addedBy>>
       ELSE /\ ctxSet' = [ctxSet EXCEPT ![c] = TRUE]
            /\ pendingStart' = SetAdd(pendingStart, c)
            /\ addedBy' = [addedBy EXCEPT ![c] = by]
    /\ UNCHANGED <<enabled, activeComponents, isInitialized, pendingRemoval, promise,
                   awaiting, disposeCount, startCount>>
    /\ Fixed

\* Components of one class are interchangeable: the host registers them in
\* the order of their numbers.
InOrder(c) ==
    ctxSet[c] \/ \A d \in Comps : (d < c /\ kind[d] = kind[c]) => ctxSet[d]

AddComponent(c) == InOrder(c) /\ DoAddComponent(c, 0) /\ Unobserved

\* Component.addComponent: p.addComponent(c). The getter of Component.ctx
\* throws while p has no context.
ComponentAddComponent(p, c) ==
    /\ p # c
    /\ InOrder(c)
    /\ IF ctxSet[p]
       THEN DoAddComponent(c, p)
       ELSE /\ op' = Op("addComponent", TRUE, 0)
            /\ log' = <<>>
            /\ UNCHANGED <<ctxSet, pendingStart, addedBy, enabled, activeComponents,
                           isInitialized, pendingRemoval, promise, awaiting,
                           disposeCount, startCount>>
            /\ Fixed
    /\ Unobserved

\* Component.removeComponent: p.removeComponent(c).
ComponentRemoveComponent(p, c) ==
    /\ p # c
    /\ op' = Op("call", parent[c] # p, 0)
    /\ log' = <<>>
    /\ IF parent[c] # p
       THEN UNCHANGED <<parent, components>>
       ELSE /\ parent' = [parent EXCEPT ![c] = 0]
            /\ components' = [components EXCEPT ![p] = SetDelete(@, c)]
    /\ UNCHANGED <<kind, spawns, ctxSet, enabled, pendingStart,
                   activeComponents, isInitialized, pendingRemoval, promise, awaiting,
                   disposeCount, startCount, addedBy, requested, frames, busVars>>

\* Context.removeComponent(c)
DoRemoveComponent(c) ==
    /\ op' = Op("removeComponent", FALSE, 0)
    /\ Commit(RemoveComponentOn(Cur, c))
    /\ UNCHANGED <<awaiting, addedBy>>
    /\ Fixed

RemoveComponent(c) == DoRemoveComponent(c) /\ Unobserved

\* The setter of Component.isEnabled, used by the host on a component the
\* context tracks.
SetEnabled(c, v) ==
    /\ enabled[c] # v
    /\ c \in Range(pendingStart) \cup Range(activeComponents)
    /\ op' = Op("call", FALSE, 0)
    /\ Commit([Cur EXCEPT !.en[c] = v])
    /\ UNCHANGED <<awaiting, addedBy>>
    /\ Unobserved
    /\ Fixed

\* The components whose hook `what` an operation calls, read off the log of
\* the operation run with no hook throwing: a throwing update or dispose
\* hook is caught and changes no other call. The throwing hooks of an
\* operation are drawn among these.
Called(what, st) == {c \in Comps : Ev(what, c) \in Range(st.lg)}

\* Variant: update() waits for the async starts of the frame before it
\* updates: no update phase in a frame that has begun one.
UpdateFrameAwaits(st, thrU, thrD) ==
    LET processed == ProcessPendingOperations(st, thrD)
    IN  IF processed.batch # {} THEN processed
        ELSE UpdateComponents(processed, 1, thrU)

\* Variant: the update phase runs before the pending operations.
UpdateFrameUpdateFirst(st, thrU, thrD) ==
    ProcessPendingOperations(UpdateComponents(st, 1, thrU), thrD)

\* The frame: Context.update().
UpdateFrame(st, thrU, thrD) ==
    UpdateComponents(ProcessPendingOperations(st, thrD), 1, thrU)

DoUpdate(elapsed, thrU, thrD) ==
    LET frame == UpdateFrame(Cur, thrU, thrD)
    IN  /\ op' = Op("update", frame.exc, DeltaTime(elapsed))
        /\ Commit(frame)
        /\ awaiting' = Suspend(frame)
        /\ UNCHANGED addedBy
        /\ Fixed

Update(elapsed, thrU, thrD) == DoUpdate(elapsed, thrU, thrD) /\ Unobserved

\* Context.clear(), as far as the registry is concerned.
ClearRegistry(st, thrD) ==
    ProcessPendingOperations(RemoveEach(st, st.ac, 1), thrD)

Clear(thrD) ==
    LET cleared == ClearRegistry(Cur, thrD)
    IN  /\ op' = Op("clear", cleared.exc, 0)
        /\ Commit(cleared)
        /\ awaiting' = Suspend(cleared)
        /\ UNCHANGED addedBy
        /\ Fixed
        /\ Unobserved

\* The reaction to the promise of c settling: the then callback on
\* fulfilment, the catch callback on rejection.
Reaction(st, c, ok) ==
    IF ok
    THEN [st EXCEPT !.prom[c] = "fulfilled", !.init[c] = TRUE]
    ELSE [st EXCEPT !.prom[c] = "rejected",
                    !.lg = Append(@, Ev("Error in async initialization of component:", c)),
                    !.pr = SetAdd(st.pr, c)]

\* The suspended call that awaits the promise of c.
BatchOf(c) == CHOOSE b \in awaiting : c \in b

\* What runs when the promise of c settles: its reaction and, if it was the
\* last promise its Promise.all waited for, the rest of
\* processPendingOperations.
Settled(st, c, ok, thrD) ==
    IF BatchOf(c) = {c}
    THEN Rejected(RemovalLoop(Reaction(st, c, ok), 1, thrD))
    ELSE Reaction(st, c, ok)

DoSettle(c, ok, thrD) ==
    /\ promise[c] = "pending"
    /\ op' = Op("settle", FALSE, 0)
    /\ Commit(Settled(Cur, c, ok, thrD))
    /\ awaiting' = (awaiting \ {BatchOf(c)}) \cup
                   (IF BatchOf(c) = {c} THEN {} ELSE {BatchOf(c) \ {c}})
    /\ UNCHANGED addedBy
    /\ Fixed

Settle(c, ok, thrD) == DoSettle(c, ok, thrD) /\ Unobserved

Next ==
    \/ \E c \in Comps : AddComponent(c)
    \/ \E c \in Comps : RemoveComponent(c)
    \/ \E c \in Comps, v \in BOOLEAN : SetEnabled(c, v)
    \/ \E e \in Elapsed :
          LET quiet == UpdateFrame(Cur, {}, {})
          IN  \E thrU \in SUBSET Called("update", quiet),
                 thrD \in SUBSET Called("dispose", quiet) :
                    Update(e, thrU, thrD)
    \/ \E thrD \in SUBSET Called("dispose", ClearRegistry(Cur, {})) : Clear(thrD)
    \/ \E c \in Comps, ok \in BOOLEAN :
          /\ promise[c] = "pending"
          /\ \E thrD \in SUBSET Called("dispose", Settled(Cur, c, ok, {})) :
                Settle(c, ok, thrD)

Spec == Init /\ [][Next]_vars

\* The host also registers and detaches children through Component.
NextTree ==
    \/ Next
    \/ \E p, c \in Comps : ComponentAddComponent(p, c)
    \/ \E p, c \in Comps : ComponentRemoveComponent(p, c)

SpecTree == Init /\ [][NextTree]_vars

\* ----------------------------------------------------------------- EventBus

\* A handler passed to on() and the wrapper the k-th call of on()/once()
\* made for once().
Fn(h) == <<"fn", h>>
Wrapper(k) == <<"once", k>>

\* `if (event)`: the empty string is falsy.
Truthy(e) == e # ""

\* The mutable part of the bus an operation works on.
CurBus == [ls |-> listeners, sets |-> busSets, fired |-> fired, live |-> live,
           lg |-> <<>>, exc |-> FALSE]

\* this.listeners.get(event) as a list of handlers
HandlersOf(e) == IF listeners[e] = 0 THEN <<>> ELSE busSets[listeners[e]]

\* EventBus.listenerCount
ListenerCount(e) == IF listeners[e] = 0 THEN 0 ELSE Len(busSets[listeners[e]])

\* The closure on() returned for its k-th call: it deletes the handler from
\* the Set it captured and, when that Set is empty, the entry of the event.
DisposeOn(bst, k) ==
    LET s == subs[k].set
        e == subs[k].event
        deleted == [bst EXCEPT !.sets[s] = SetDelete(@, subs[k].fn),
                               !.live[e] = @ \ {subs[k].fn}]
    IN  IF Len(deleted.sets[s]) = 0 THEN [deleted EXCEPT !.ls[e] = 0] ELSE deleted

\* Variant: emit calls the handlers outside any try block.
CatchHandlerRethrow(bst, fn) == bst

\* catch (err) { console.error(`Error in handler for ...`, err); }
CatchHandler(bst, fn) ==
    [bst EXCEPT !.exc = FALSE, !.lg = Append(@, <<"Error in handler for", fn>>)]

RECURSIVE EmitOn(_, _, _, _, _)
RECURSIVE ForEach(_, _, _, _, _, _, _)
RECURSIVE Invoke(_, _, _, _, _, _)
RECURSIVE RunHandler(_, _, _, _, _, _)

\* A user handler runs: one of those in re emits the same event again when
\* it is called by the outermost emit, one of those in thr throws at its
\* end.
RunHandler(bst, fn, e, thr, re, nested) ==
    LET called == [bst EXCEPT !.lg = Append(@, <<"call", fn>>)]
        emitted ==
            IF fn \in re /\ ~nested
            THEN EmitOn([called EXCEPT !.lg = Append(@, <<"emit", fn>>)], e, thr, re, TRUE)
            ELSE called
    IN  IF emitted.exc \/ fn \notin thr THEN emitted
        ELSE [emitted EXCEPT !.lg = Append(@, <<"throws", fn>>), !.exc = TRUE]

\* Variant: the wrapper calls the handler first and its dispose after.
OnceWrapperHandlerFirst(bst, k, e, thr, re, nested) ==
    LET ran == RunHandler([bst EXCEPT !.fired[k] = @ + 1], Wrapper(k), e, thr, re, nested)
    IN  IF ran.exc THEN ran ELSE DisposeOn(ran, k)

\* (d) => { dispose(); handler(d); }
OnceWrapper(bst, k, e, thr, re, nested) ==
    RunHandler([DisposeOn(bst, k) EXCEPT !.fired[k] = @ + 1], Wrapper(k), e, thr, re, nested)

\* try { h(data) } catch ...
Invoke(bst, fn, e, thr, re, nested) ==
    LET ran == IF fn[1] = "once"
               THEN OnceWrapper(bst, fn[2], e, thr, re, nested)
               ELSE RunHandler(bst, fn, e, thr, re, nested)
    IN  IF ran.exc THEN CatchHandler(ran, fn) ELSE ran

\* set.forEach(...): the members of Set s in insertion order, a member
\* deleted before its turn being skipped.
ForEach(bst, s, visited, e, thr, re, nested) ==
    LET rest == SelectSeq(bst.sets[s], LAMBDA f : f \notin visited)
    IN  IF bst.exc \/ rest = <<>> THEN bst
        ELSE ForEach(Invoke(bst, rest[1], e, thr, re, nested), s,
                     visited \cup {rest[1]}, e, thr, re, nested)

\* EventBus.emit on the working state.
EmitOn(bst, e, thr, re, nested) ==
    IF bst.ls[e] = 0 THEN bst
    ELSE ForEach(bst, bst.ls[e], {}, e, thr, re, nested)

BusOp(name, e, threw) == [name |-> name, event |-> e, threw |-> threw]

\* Writes a working state of the bus back to the variables.
CommitBus(bst) ==
    /\ listeners' = bst.ls
    /\ busSets' = bst.sets
    /\ fired' = bst.fired
    /\ live' = bst.live
    /\ busLog' = bst.lg

\* The subscription on() and once() share: handler fn is added to the Set
\* of the event, created when the event has none.
Subscribe(e, fn, once) ==
    LET s == IF listeners[e] = 0 THEN Len(busSets) + 1 ELSE listeners[e]
    IN  /\ Len(subs) < MaxSubs
        /\ listeners' = [listeners EXCEPT ![e] = s]
        /\ busSets' = IF listeners[e] = 0 THEN Append(busSets, <<fn>>)
                      ELSE [busSets EXCEPT ![s] = SetAdd(@, fn)]
        /\ subs' = Append(subs, [event |-> e, set |-> s, fn |-> fn, once |-> once])
        /\ live' = [live EXCEPT ![e] = @ \cup {fn}]
        /\ busLog' = <<>>
        /\ UNCHANGED <<fired, lifeVars>>

\* The host's handler functions are interchangeable: it takes them into
\* use in the order of their numbers.
InUse(h) == \E k \in 1..Len(subs) : subs[k].fn = Fn(h)

\* EventBus.on(e, h). The host subscribes a handler to an event again only
\* while the handler is still subscribed to it.
On(e, h) ==
    /\ h = 1 \/ InUse(h - 1)
    /\ (\E k \in 1..Len(subs) : subs[k].event = e /\ subs[k].fn = Fn(h)) => Fn(h) \in live[e]
    /\ busOp' = BusOp("call", "", FALSE)
    /\ Subscribe(e, Fn(h), FALSE)

\* EventBus.once(e, h) with a handler h of its own: on() is passed a fresh
\* wrapper around h.
Once(e) ==
    /\ busOp' = BusOp("call", "", FALSE)
    /\ Subscribe(e, Wrapper(Len(subs) + 1), TRUE)

\* The host calls the function the k-th on()/once() returned.
Dispose(k) ==
    /\ k \in 1..Len(subs)
    /\ busOp' = BusOp("call", "", FALSE)
    /\ CommitBus(DisposeOn(CurBus, k))
    /\ UNCHANGED <<subs, lifeVars>>

\* EventBus.emit(e, data)
Emit(e, thr, re) ==
    LET emitted == EmitOn(CurBus, e, thr, re, FALSE)
    IN  /\ busOp' = BusOp("emit", e, emitted.exc)
        /\ CommitBus(emitted)
        /\ UNCHANGED <<subs, lifeVars>>

\* if (event) this.listeners.delete(event); else this.listeners.clear();
BusClearOn(bst, e) ==
    IF Truthy(e)
    THEN [bst EXCEPT !.ls[e] = 0, !.live[e] = {}]
    ELSE [bst EXCEPT !.ls = [f \in Events |-> 0], !.live = [f \in Events |-> {}]]

\* EventBus.clear(e)
BusClear(e) ==
    /\ busOp' = BusOp("clear", e, FALSE)
    /\ CommitBus(BusClearOn(CurBus, e))
    /\ UNCHANGED <<subs, lifeVars>>

\* EventBus.clear()
BusClearAll ==
    /\ busOp' = BusOp("clearAll", "", FALSE)
    /\ CommitBus([CurBus EXCEPT !.ls = [f \in Events |-> 0],
                                !.live = [f \in Events |-> {}]])
    /\ UNCHANGED <<subs, lifeVars>>

\* A bus on its own: no component is registered.
InitBus == Init /\ kind = [c \in Comps |-> "bare"]

NextBus ==
    \/ \E e \in Events, h \in Handlers : On(e, h)
    \/ \E e \in Events : Once(e)
    \/ \E k \in 1..MaxSubs : Dispose(k)
    \/ \E e \in Events :
          \E thr \in SUBSET Range(HandlersOf(e)), re \in SUBSET Range(HandlersOf(e)) :
              Cardinality(thr) <= 1 /\ Cardinality(re) <= 1 /\ Emit(e, thr, re)
    \/ \E e \in Events : BusClear(e)
    \/ BusClearAll

SpecBus == InitBus /\ [][NextBus]_vars

\* The frame loop under an irregular clock: the host runs components of
\* class TestComponent (synchronous start, update, dispose) and the clock
\* reports any of the samples of ElapsedWide between two frames.
InitClock == Init /\ kind = [c \in Comps |-> "sync"]

NextClock ==
    \/ \E c \in Comps : AddComponent(c)
    \/ \E c \in Comps : RemoveComponent(c)
    \/ \E c \in Comps, v \in BOOLEAN : SetEnabled(c, v)
    \/ \E e \in ElapsedWide :
          LET quiet == UpdateFrame(Cur, {}, {})
          IN  \E thrU \in SUBSET Called("update", quiet),
                 thrD \in SUBSET Called("dispose", quiet) :
                    Update(e, thrU, thrD)
    \/ \E thrD \in SUBSET Called("dispose", ClearRegistry(Cur, {})) : Clear(thrD)

SpecClock == InitClock /\ [][NextClock]_vars

\* ---------------------------------------------------- hooks that register

\* Classes whose start hook exists; each start hook may register one
\* component, any of the host's, itself included.
InitSpawn ==
    /\ kind \in [Comps -> {"sync", "throw", "async"}]
    /\ spawns \in [Comps -> 0..NComp]
    /\ InitHost(Comps)

NextSpawn ==
    \/ \E c \in Comps : DoAddComponent(c, 0) /\ Unobserved
    \/ \E c \in Comps : RemoveComponent(c)
    \/ \E e \in Elapsed : Update(e, {}, {})
    \/ Clear({})
    \/ \E c \in Comps, ok \in BOOLEAN : Settle(c, ok, {})

SpecSpawn == InitSpawn /\ [][NextSpawn]_vars

\* ------------------------------------------------- long initializations

\* The host has created NAsync components whose start hooks all return a
\* promise; being alike, they are registered in the order of their numbers.
InitAsync ==
    /\ kind = [c \in AsyncComps |-> "async"]
    /\ spawns = [c \in AsyncComps |-> 0]
    /\ InitHost(AsyncComps)

\* The update() calls that have returned since c was put in pendingRemoval,
\* counted while c stays there; n is 1 for update() and 0 otherwise. And
\* the tracked components whose removal was requested while their start
\* promise was unsettled.
Observed(n) ==
    /\ frames' = [c \in AsyncComps |->
                     IF c \notin Range(pendingRemoval') THEN 0
                     ELSE IF c \in Range(pendingRemoval) THEN frames[c] + n
                     ELSE 0]
    /\ requested' = [c \in AsyncComps |->
                        requested[c] /\ c \in Range(activeComponents')]

NextAsync ==
    \/ \E c \in AsyncComps :
          /\ \A d \in 1..(c - 1) : ctxSet[d]
          /\ DoAddComponent(c, 0)
          /\ Unobserved
    \/ \E c \in AsyncComps :
          /\ DoRemoveComponent(c)
          /\ requested' = [requested EXCEPT
                ![c] = @ \/ (c \in Range(activeComponents) /\ promise[c] = "pending")]
          /\ UNCHANGED frames
    \/ \E e \in Elapsed : DoUpdate(e, {}, {}) /\ Observed(1)
    \/ \E c \in AsyncComps, ok \in BOOLEAN : DoSettle(c, ok, {}) /\ Observed(0)

SpecAsync == InitAsync /\ [][NextAsync]_vars

\* ------------------------------------------------------------ observations

Tracked(c) == c \in Range(activeComponents)
Queued(c) == c \in Range(pendingRemoval)
Pending(c) == c \in Range(pendingStart)

\* c is known to the context in some way.
Known(c) == Pending(c) \/ Tracked(c) \/ Queued(c)

\* The number of times event e occurs in the log of the last operation.
Count(e) == Cardinality({i \in 1..Len(log) : log[i] = e})

\* The phase of the frame a log entry belongs to.
Phase(e) ==
    CASE e[1] \in {"start", "start throws", "Error initializing component:"} -> 1
      [] e[1] \in {"dispose", "dispose throws", "Error disposing component:"} -> 2
      [] e[1] \in {"update", "update throws", "Error updating component:"} -> 3
      [] OTHER -> 0

\* ------------------------------------------------------------------ claims

\* C1: for every component and every interleaving of addComponent,
\* removeComponent, update, clear and promise settlements, the dispose hook
\* of the component is invoked at most once.
C1_DisposeAtMostOnce ==
    \A c \in Comps : disposeCount[c] <= 1

\* C2: when the synchronous start hook of a component throws during
\* update(), the error is reported, the component is not in the registry,
\* and its dispose hook is never invoked, in that frame or any later one.
C2_StartErrorNoDispose ==
    \A c \in Comps :
        (kind[c] = "throw" /\ startCount[c] > 0) =>
            /\ ~Tracked(c) /\ ~Pending(c)
            /\ (Ev("start", c) \in Range(log) =>
                    Ev("Error initializing component:", c) \in Range(log))
            /\ disposeCount[c] = 0

\* C3: once the promise returned by the start hook of a component has
\* rejected, the rejection is reported and the dispose hook of the component
\* is not invoked, neither by the settlement nor by any later operation.
C3_AsyncStartErrorNoDispose ==
    [][\A c \in Comps :
          promise'[c] = "rejected" =>
              /\ disposeCount'[c] = disposeCount[c]
              /\ (promise[c] = "pending" =>
                    Ev("Error in async initialization of component:", c) \in Range(log'))]_vars

\* C4: within one update() call the start hooks run before the dispose
\* hooks and the dispose hooks before the update hooks, and every component
\* that is pending removal has been disposed and dropped before the update
\* phase, so that it receives no update hook call in that frame.
C4_AddRemoveUpdateOrder ==
    op.name = "update" =>
        /\ \A i, j \in 1..Len(log) : i < j => Phase(log[i]) <= Phase(log[j])
        /\ \A c \in Comps :
              Queued(c) => (~Tracked(c) /\ Ev("update", c) \notin Range(log))

\* C5: after removeComponent on an active component, the dispose hook is
\* invoked exactly once, during the very next update() call (not inside
\* removeComponent, not in a later frame), and never again.
C5_DisposeOnNextFrame ==
    [][\A c \in Comps :
          /\ (op'.name = "update" /\ Queued(c) /\ Tracked(c) /\ isInitialized[c]
                  /\ HasDispose(c))
                => (disposeCount'[c] = 1 /\ ~Tracked(c)')
          /\ (op'.name \in {"call", "removeComponent", "addComponent"} =>
                    disposeCount'[c] = disposeCount[c])
          /\ (isInitialized[c] => disposeCount'[c] <= 1)]_vars

\* The components registered through addComponent of p or of one of its
\* descendants.
RECURSIVE Below(_, _)
Below(S, n) ==
    IF n = 0 THEN S
    ELSE Below(S \cup {d \in Comps : addedBy[d] \in S}, n - 1)

Descendants(p) == Below({p}, NComp) \ {p}

\* C6: when a child was added through parent.addComponent(child) and the
\* parent is removed with Context.removeComponent(parent), the update() that
\* disposes and drops the parent leaves every descendant dropped from the
\* registry with its dispose hook invoked exactly once.
C6_CascadeRemoval ==
    [][\A p, d \in Comps :
          (/\ op'.name = "update"
           /\ Queued(p) /\ Tracked(p) /\ ~Tracked(p)'
           /\ d \in Descendants(p) /\ Tracked(d) /\ HasDispose(d))
          => (~Tracked(d)' /\ disposeCount'[d] = 1)]_vars

\* C7: addComponent with a component the context already knows (pending
\* start, initializing, active or pending removal) throws and leaves the
\* pending-start set, the active map and the pending-removal set as they
\* were.
C7_DuplicateAddThrows ==
    [][\A c \in Comps :
          (Known(c) /\ AddComponent(c)) =>
              /\ op'.threw
              /\ UNCHANGED <<pendingStart, activeComponents, pendingRemoval>>]_vars

C7_Witness ==
    /\ op.name = "addComponent" /\ op.threw
    /\ \A c \in Comps : Known(c)
    /\ \E c \in Comps : Queued(c) /\ ~Tracked(c)
    /\ \E c \in Comps : Tracked(c) /\ ~isInitialized[c]

\* A component dropped from the registry after its asynchronous start
\* failed.
FailedAndDropped(c) == promise[c] = "rejected" /\ ~Known(c)

\* C8 as stated: after a component was dropped because its asynchronous
\* start failed, addComponent with that component succeeds and queues it as
\* a fresh pending-start component.
C8_ReAddSucceeds ==
    [][\A c \in Comps :
          (FailedAndDropped(c) /\ AddComponent(c)) =>
              (~op'.threw /\ Pending(c)')]_vars

\* C8 as amended: after a component was dropped because its asynchronous
\* start failed, addComponent with that component throws and leaves the
\* registry as it was; the start hook of the component is never called a
\* second time.
C8_ReAddThrows ==
    [][\A c \in Comps :
          /\ (FailedAndDropped(c) /\ AddComponent(c)) =>
                /\ op'.threw
                /\ UNCHANGED <<pendingStart, activeComponents, pendingRemoval>>
          /\ (FailedAndDropped(c) => startCount'[c] = 1)]_vars

C8_Witness ==
    /\ op.name = "addComponent" /\ op.threw
    /\ \A c \in Comps : FailedAndDropped(c)

\* The classes whose hooks are all synchronous.
SyncKinds == {"none", "sync"}

\* C9: a component whose hooks are all synchronous and do not throw is
\* active once the first update() after its registration has returned, has
\* received an update hook call in that update(), and in every update() its
\* update hook is called exactly once while it is enabled and not removed.
C9_SyncActiveAndUpdatedOncePerFrame ==
    \A c \in Comps :
        (op.name = "update" /\ kind[c] \in SyncKinds /\ ctxSet[c] /\ disposeCount[c] = 0) =>
            /\ Tracked(c) /\ isInitialized[c] /\ ~Pending(c)
            /\ (enabled[c] => Count(Ev("update", c)) = 1)

C9_Witness ==
    /\ op.name = "update"
    /\ \A c \in Comps :
          /\ kind[c] = "sync" /\ Tracked(c) /\ enabled[c]
          /\ Count(Ev("update", c)) = 1
    /\ Ev("start", 1) \notin Range(log)
    /\ Ev("start", NComp) \in Range(log)

\* C10: a component whose start hook returns a promise receives no update
\* hook call in any frame before the promise has fulfilled, and stays
\* tracked as initializing while the promise is unsettled; in every update()
\* after the promise has fulfilled its update hook is called exactly once,
\* provided it is still tracked and enabled.
C10_AsyncUpdatedOnlyAfterFulfil ==
    \A c \in Comps :
        kind[c] = "async" =>
            /\ (promise[c] # "fulfilled" => Ev("update", c) \notin Range(log))
            /\ (promise[c] = "pending" /\ disposeCount[c] = 0 =>
                    Tracked(c) /\ ~isInitialized[c])
            /\ (op.name = "update" /\ promise[c] = "fulfilled" /\ Tracked(c) /\ enabled[c] =>
                    Count(Ev("update", c)) = 1)

C10_Witness ==
    /\ op.name = "update"
    /\ \E c \in Comps :
          /\ kind[c] = "async" /\ promise[c] = "fulfilled"
          /\ Count(Ev("update", c)) = 1
    /\ \E c \in Comps :
          /\ kind[c] = "async" /\ promise[c] = "pending" /\ Tracked(c)

\* The log entry e is directly followed by the log entry r.
FollowedBy(e, r) ==
    \A i \in 1..Len(log) : log[i] = e => (i < Len(log) /\ log[i + 1] = r)

\* The log entry e occurs before the log entry f.
Before(e, f) ==
    \E i, j \in 1..Len(log) : i < j /\ log[i] = e /\ log[j] = f

\* C11: when the update hook of a component throws during update(), the
\* error is reported, the component is disabled, update() returns normally,
\* and every other active (started, initialized) component that was enabled
\* in the update phase has received exactly one update hook call in that
\* frame, whether it comes before or after the failing one.
C11_UpdateErrorContained ==
    \A c \in Comps :
        (op.name = "update" /\ Ev("update throws", c) \in Range(log)) =>
            /\ FollowedBy(Ev("update throws", c), Ev("Error updating component:", c))
            /\ ~enabled[c]
            /\ ~op.threw
            /\ \A d \in Comps \ {c} :
                  (/\ Tracked(d) /\ isInitialized[d] /\ HasUpdate(d)
                   /\ (enabled[d] \/ Ev("update throws", d) \in Range(log)))
                  => Count(Ev("update", d)) = 1

C11_Witness ==
    /\ op.name = "update"
    /\ Before(Ev("update throws", 1), Ev("update", 2))
    /\ Ev("update throws", 2) \in Range(log)
    /\ ~enabled[1] /\ ~enabled[2]

\* C12: a start hook that throws does not keep any other pending-start
\* component from having its start hook called by the same operation, and a
\* dispose hook that throws does not keep any other component queued for
\* removal from having its dispose hook called by the same operation.
C12_HookErrorSparesSiblings ==
    [][LET after == Range(log')
       IN  /\ (\E c \in Comps : Ev("start throws", c) \in after) =>
                 \A d \in Comps :
                     (Pending(d) /\ HasStart(d)) => Ev("start", d) \in after
           /\ (\E c \in Comps : Ev("dispose throws", c) \in after) =>
                 \A d \in Comps :
                     (Queued(d) /\ HasDispose(d)) => Ev("dispose", d) \in after]_vars

C12_Witness ==
    /\ op.name = "update"
    /\ \E c, d \in Comps :
          /\ c # d
          /\ Ev("start throws", d) \in Range(log)
          /\ Before(Ev("dispose throws", c), Ev("dispose", d))

\* C13: when the dispose hook of a component throws, the error is reported
\* and the component is dropped all the same: a component whose dispose
\* hook has been called is not tracked and receives no update hook call, in
\* that frame or any later one.
C13_DisposeErrorStillDropped ==
    \A c \in Comps :
        /\ FollowedBy(Ev("dispose throws", c), Ev("Error disposing component:", c))
        /\ disposeCount[c] > 0 =>
              (~Tracked(c) /\ ~Pending(c) /\ Ev("update", c) \notin Range(log))

C13_Witness ==
    /\ op.name = "update"
    /\ \E c \in Comps :
          /\ Ev("dispose throws", c) \in Range(log)
          /\ ~Tracked(c)
    /\ \E d \in Comps : Ev("update", d) \in Range(log)

\* C14: update() returns normally whatever hooks throw in the frame, and
\* the frame runs to its end: the pending-start set has been drained.
C14_UpdateNeverThrows ==
    op.name = "update" => (~op.threw /\ pendingStart = <<>>)

C14_Witness ==
    /\ op.name = "update" /\ ~op.threw
    /\ \E c, d \in Comps :
          /\ Ev("start throws", c) \in Range(log)
          /\ Ev("dispose throws", c) \in Range(log)
          /\ Ev("update throws", d) \in Range(log)

\* C15: after clear() has returned the context tracks no component: the
\* pending-start set, the active map and the pending-removal set are empty.
C15_ClearEmptiesRegistry ==
    op.name = "clear" =>
        /\ pendingStart = <<>>
        /\ activeComponents = <<>>
        /\ pendingRemoval = <<>>

\* C16: clear() calls the dispose hook of every component that is active or
\* initializing when it is called, before it returns.
C16_ClearDisposesSynchronously ==
    [][op'.name = "clear" =>
          \A c \in Comps :
              (Tracked(c) /\ HasDispose(c)) => Ev("dispose", c) \in Range(log')]_vars

\* C17: removeComponent on a component that is still pending start queues
\* it for removal, and such a component is not started into the active map
\* by the next frame.
C17_RemovePendingStartQueues ==
    [][\A c \in Comps :
          (Pending(c) /\ RemoveComponent(c)) => Queued(c)']_vars

\* C18: removeComponent calls no hook and leaves the active map as it is;
\* on a component that is unknown, already queued for removal or already
\* disposed it changes none of the three collections; a second call changes
\* nothing the first one has not changed.
C18_RemoveComponentIdempotent ==
    \A c \in Comps :
        LET once == RemoveComponentOn(Cur, c)
        IN  /\ once.lg = <<>> /\ once.dc = disposeCount
            /\ once.ac = activeComponents
            /\ (~Known(c) \/ Queued(c) \/ disposeCount[c] > 0) =>
                  (/\ once.ps = pendingStart
                   /\ once.pr = pendingRemoval)
            /\ RemoveComponentOn(once, c) = once
            /\ (op.name = "removeComponent" => log = <<>>)

C18_Witness ==
    /\ op.name = "removeComponent"
    /\ \E c \in Comps : Queued(c) /\ Tracked(c) /\ disposeCount[c] = 0
    /\ \E d \in Comps : disposeCount[d] > 0 /\ ~Known(d)

\* The throwing update hooks a frame may meet.
UpdateThrowers == SUBSET Called("update", UpdateFrame(Cur, {}, {}))

\* C19: a disabled component receives no update hook call in a frame, and
\* being disabled does not get it disposed or dropped: the next update()
\* leaves an active disabled component that nobody asked to remove in the
\* active map with no dispose call. An active component that is enabled
\* (again) has exactly one update hook call in the frame.
C19_DisabledNotUpdatedNotDisposed ==
    \A c \in Comps :
        /\ (op.name = "update" /\ ~enabled[c] /\ Ev("update throws", c) \notin Range(log))
              => Ev("update", c) \notin Range(log)
        /\ (Tracked(c) /\ ~Queued(c) /\ ~enabled[c]) =>
              \A thrU \in UpdateThrowers :
                  LET frame == UpdateFrame(Cur, thrU, {})
                  IN  /\ frame.dc[c] = disposeCount[c]
                      /\ c \in Range(frame.ac)
                      /\ Ev("update", c) \notin Range(frame.lg)
        /\ (op.name = "update" /\ enabled[c] /\ Tracked(c) /\ isInitialized[c] /\ HasUpdate(c))
              => Count(Ev("update", c)) = 1

C19_Witness ==
    /\ op.name = "update"
    /\ \E c \in Comps :
          /\ Tracked(c) /\ isInitialized[c] /\ HasUpdate(c) /\ ~enabled[c]
          /\ Ev("update", c) \notin Range(log)
          /\ disposeCount[c] = 0
    /\ \E d \in Comps : enabled[d] /\ Count(Ev("update", d)) = 1

\* C20: a component whose update hook throws in a frame stays in the active
\* map, disabled, with no dispose call and without being queued for removal
\* by the failure, and the error is reported once; no operation of the
\* context enables a disabled component, which while disabled has neither
\* an update hook call nor an update error; once enabled again and still
\* active it is updated in the frame.
C20_UpdateErrorKeepsRegistered ==
    \A c \in Comps :
        /\ \A thrU \in UpdateThrowers :
              LET frame == UpdateFrame(Cur, thrU, {})
              IN  /\ c \in thrU =>
                        /\ c \in Range(frame.ac) /\ ~frame.en[c]
                        /\ frame.dc[c] = disposeCount[c]
                        /\ (c \in Range(frame.pr) => Queued(c))
                        /\ Cardinality({i \in 1..Len(frame.lg) :
                                frame.lg[i] = Ev("Error updating component:", c)}) = 1
                  /\ frame.en[c] => enabled[c]
                  /\ (~enabled[c]) =>
                        /\ Ev("update", c) \notin Range(frame.lg)
                        /\ Ev("Error updating component:", c) \notin Range(frame.lg)
                  /\ (enabled[c] /\ c \in Range(frame.ac) /\ frame.init[c] /\ HasUpdate(c))
                        => Ev("update", c) \in Range(frame.lg)
        /\ (op.name \in {"clear", "settle", "addComponent", "removeComponent"}
                => Ev("update", c) \notin Range(log))

C20_Witness ==
    /\ op.name = "update"
    /\ \E c \in Comps :
          /\ Ev("update throws", c) \in Range(log)
          /\ Tracked(c) /\ ~enabled[c] /\ ~Queued(c) /\ disposeCount[c] = 0
    /\ \E d \in Comps :
          /\ Tracked(d) /\ enabled[d] /\ Count(Ev("update", d)) = 1

\* C21: the delta passed to the update hooks of a frame is at least 0 and at
\* most the clamp of 100 ms, whatever the clock reports.
C21_DeltaClamped ==
    op.name = "update" => (0 <= op.dt /\ op.dt <= MaxDelta)

C21_Witness ==
    /\ op.name = "update"
    /\ op.dt = MaxDelta /\ MaxDelta \notin ElapsedWide
    /\ \E c \in Comps : Ev("update", c) \in Range(log)

\* The position of x in the sequence s.
Pos(s, x) == CHOOSE i \in 1..Len(s) : s[i] = x

C23_PendingStartStallsNobody ==
    \A a \in Comps :
        (op.name = "update" /\ promise[a] = "pending") =>
            \A c \in Comps \ {a} :
                /\ (kind[c] \in SyncKinds /\ ctxSet[c] /\ disposeCount[c] = 0)
                      => (Tracked(c) /\ isInitialized[c])
                /\ (/\ Tracked(c) /\ isInitialized[c] /\ HasUpdate(c)
                    /\ (enabled[c] \/ Ev("update throws", c) \in Range(log)))
                      => Count(Ev("update", c)) = 1

C23_Witness ==
    /\ op.name = "update"
    /\ \E a, c \in Comps :
          /\ promise[a] = "pending" /\ Tracked(a)
          /\ Ev("start", a) \notin Range(log)
          /\ kind[c] = "sync"
          /\ Before(Ev("start", c), Ev("update", c))

\* C24: addComponent calls no hook, and the start hook of a component is
\* called by an update() with the component in the pending-start set, by
\* no other operation.
C24_StartOnlyInUpdate ==
    [][\A c \in Comps :
          /\ (op'.name = "addComponent" => (log' = <<>> /\ startCount' = startCount))
          /\ (startCount'[c] > startCount[c] => (op'.name = "update" /\ Pending(c)))]_vars

\* The number of times event e occurs in the log lg.
CountIn(lg, e) == Cardinality({i \in 1..Len(lg) : lg[i] = e})

\* C25: the update() that finds a component without start hook in the
\* pending-start set makes it active and initialized without any start
\* call, and calls its update hook in that same frame (once, if it has one
\* and is enabled).
C25_NoStartHookStartsAtOnce ==
    \A c \in Comps :
        (Pending(c) /\ ~HasStart(c)) =>
            \A thrU \in UpdateThrowers :
                LET frame == UpdateFrame(Cur, thrU, {})
                IN  /\ c \in Range(frame.ac) /\ frame.init[c]
                    /\ frame.sc[c] = 0 /\ Ev("start", c) \notin Range(frame.lg)
                    /\ (enabled[c] /\ HasUpdate(c)) =>
                          CountIn(frame.lg, Ev("update", c)) = 1

C25_Witness ==
    /\ op.name = "update"
    /\ \E c, d \in Comps :
          /\ kind[c] = "none" /\ kind[d] = "sync"
          /\ Ev("start", d) \in Range(log)
          /\ Tracked(c) /\ Tracked(d)
          /\ Pos(activeComponents, d) < Pos(activeComponents, c)
          /\ isInitialized[c] /\ startCount[c] = 0
          /\ Count(Ev("update", c)) = 1

\* A component that was disposed, or registered and dropped from the
\* registry.
Terminal(c) == disposeCount[c] > 0 \/ (ctxSet[c] /\ ~Known(c))

\* The start and update hook calls of c in the log lg.
Revived(lg, c) == Ev("start", c) \in Range(lg) \/ Ev("update", c) \in Range(lg)

\* C26: a component that was disposed or dropped is neither pending nor
\* active, cannot be registered again, has been started at most once, and
\* no operation calls its start or update hook: not the next update(), not
\* clear(), not the settlement of any promise.
C26_TerminalStaysDead ==
    \A c \in Comps :
        /\ startCount[c] <= 1
        /\ Terminal(c) =>
              /\ ~Pending(c) /\ ~Tracked(c)
              /\ AddComponentThrows(c)
              /\ Ev("update", c) \notin Range(log)
              /\ ~Revived(UpdateFrame(Cur, {}, {}).lg, c)
              /\ ~Revived(ClearRegistry(Cur, {}).lg, c)
              /\ \A a \in Comps, ok \in BOOLEAN :
                    promise[a] = "pending" => ~Revived(Settled(Cur, a, ok, {}).lg, c)

C26_Witness ==
    /\ op.name = "addComponent" /\ op.threw
    /\ \E c, d \in Comps :
          /\ disposeCount[c] = 1 /\ ~Known(c) /\ startCount[c] = 1
          /\ Tracked(d) /\ isInitialized[d]

\* The entry e occurs before the entry f in the sequence lg.
BeforeIn(lg, e, f) ==
    \E i, j \in 1..Len(lg) : i < j /\ lg[i] = e /\ lg[j] = f

\* C27: the handler of a once() subscription is called at most once however
\* often the event is emitted, also from inside the handler; once the
\* function once() returned has been called the wrapper is out of its Set,
\* and a wrapper that is out of its Set stays out and is never called.
C27_OnceAtMostOnce ==
    [][\A k \in 1..Len(subs) :
          subs[k].once =>
              LET s == subs[k].set
              IN  /\ fired'[k] <= 1
                  /\ Wrapper(k) \notin Range(busSets[s]) =>
                        (/\ fired'[k] = fired[k]
                         /\ Wrapper(k) \notin Range(busSets'[s]))
                  /\ Dispose(k) => Wrapper(k) \notin Range(busSets'[s])]_vars

C27_Witness ==
    /\ busOp.name = "emit"
    /\ \E k \in 1..Len(subs) :
          /\ subs[k].once /\ fired[k] = 1
          /\ <<"emit", Wrapper(k)>> \in Range(busLog)
          /\ \E h \in Handlers : CountIn(busLog, <<"call", Fn(h)>>) = 2

\* C28: emit returns normally, reports every handler that throws, and
\* calls every handler that is subscribed to the event when it starts.
C28_EmitContainsHandlerErrors ==
    [][busOp'.name = "emit" =>
          LET after == Range(busLog')
          IN  /\ ~busOp'.threw
              /\ \A fn \in Range(HandlersOf(busOp'.event)) : <<"call", fn>> \in after
              /\ \A i \in 1..Len(busLog') :
                    busLog'[i][1] = "throws" =>
                        <<"Error in handler for", busLog'[i][2]>> \in after]_vars

C28_Witness ==
    /\ busOp.name = "emit" /\ ~busOp.threw
    /\ \E k \in 1..Len(subs), h \in Handlers :
          BeforeIn(busLog, <<"throws", Wrapper(k)>>, <<"call", Fn(h)>>)
    /\ \E e \in Events : listeners[e] = 0

\* C29: for every event, listenerCount is the number of handlers that were
\* subscribed to it and have not been removed since by their dispose
\* function, by firing as a once-handler or by clear.
C29_ListenerCountExact ==
    \A e \in Events : ListenerCount(e) = Cardinality(live[e])

\* The handlers of the event e after the step, in the order of their Set.
HandlersAfter(e) ==
    IF listeners'[e] = 0 THEN <<>> ELSE busSets'[listeners'[e]]

\* C30: clear(event) leaves the event without handlers and the handlers of
\* every other event as they were; clear() leaves every event without
\* handlers; an emit calls only handlers that are subscribed to the event
\* when it starts, none that a clear has removed before.
C30_ClearRemovesOnlyThatEvent ==
    [][/\ busOp'.name = "clear" =>
             /\ HandlersAfter(busOp'.event) = <<>>
             /\ \A f \in Events \ {busOp'.event} : HandlersAfter(f) = HandlersOf(f)
       /\ busOp'.name = "clearAll" => \A f \in Events : HandlersAfter(f) = <<>>
       /\ busOp'.name = "emit" =>
             \A i \in 1..Len(busLog') :
                 busLog'[i][1] = "call" => busLog'[i][2] \in live[busOp'.event]]_vars


\* C31: the settlement of an async start promise between frames removes no
\* component from the active map and calls no dispose hook; what it caused
\* shows at the next update() or clear().
C31_SettlementMutatesNothing ==
    [][op'.name = "settle" =>
          /\ activeComponents' = activeComponents
          /\ disposeCount' = disposeCount]_vars

\* C32: between operations no component is at once in the pending-start
\* set and in the active map or the pending-removal set; in particular an
\* initializing or active component is not pending start.
C32_PendingStartDisjoint ==
    \A c \in Comps : Pending(c) => (~Tracked(c) /\ ~Queued(c))

C32_Witness ==
    \E c, d \in Comps :
        /\ Pending(c) /\ ~Tracked(c) /\ ~Queued(c)
        /\ Tracked(d) /\ Queued(d) /\ ~Pending(d)
        /\ C32_PendingStartDisjoint

\* C33: when update() or clear() has returned, every component in the
\* pending-removal set is tracked in the active map.
C33_QueuedIsTracked ==
    op.name \in {"update", "clear"} =>
        \A c \in Comps : Queued(c) => Tracked(c)

\* C34: a component with a start hook gets an update hook call only after
\* its start hook was called and returned normally, or the promise it
\* returned has fulfilled; none at all when start threw or the promise
\* rejected.
C34_UpdateOnlyAfterStartSucceeded ==
    \A c \in Comps :
        (HasStart(c) /\ Ev("update", c) \in Range(log)) =>
            /\ kind[c] # "throw"
            /\ startCount[c] >= 1
            /\ Ev("start throws", c) \notin Range(log)
            /\ Ev("start", c) \in Range(log) => Before(Ev("start", c), Ev("update", c))
            /\ kind[c] = "async" =>
                  /\ promise[c] = "fulfilled"
                  /\ Ev("start", c) \notin Range(log)

C34_Witness ==
    /\ op.name = "update"
    /\ \E c \in Comps :
          /\ kind[c] = "sync"
          /\ Before(Ev("start", c), Ev("update", c))
    /\ \E d \in Comps :
          /\ kind[d] \in {"throw", "async"} /\ enabled[d]
          /\ Ev("start", d) \in Range(log)
          /\ Ev("update", d) \notin Range(log)

\* C36: clear() calls no start hook; a component that is pending start when
\* clear() is called is neither started nor active afterwards.
C36_ClearStartsNothing ==
    [][op'.name = "clear" =>
          /\ startCount' = startCount
          /\ \A c \in Comps :
                /\ Ev("start", c) \notin Range(log')
                /\ Pending(c) => c \notin Range(activeComponents')]_vars


\* C39: a dispose function removes only the handler it was returned for:
\* whatever dispose functions were called before, and however often, an emit
\* calls every handler that is subscribed to the event and was removed
\* neither by its own dispose function nor by clear.
C39_DisposeRemovesOnlyItsHandler ==
    [][busOp'.name = "emit" =>
          \A fn \in live[busOp'.event] : <<"call", fn>> \in Range(busLog')]_vars


\* C35: the start hook of a component is called at most once, whatever the
\* host calls and whichever components the start hooks register while the
\* pending-start set is being worked through.
C35_StartAtMostOnce ==
    \A c \in Comps : startCount[c] <= 1

C35_Witness ==
    /\ op.name = "update"
    /\ \E c, d \in Comps :
          /\ c # d /\ spawns[c] = d /\ spawns[d] = c
          /\ kind[c] = "sync"
          /\ Ev("start throws", c) \notin Range(log)
          /\ Before(Ev("start", c), Ev("start", d))
          /\ Ev("start throws", d) \in Range(log)
          /\ startCount[c] = 1 /\ startCount[d] = 1


\* C37: a component whose removal was requested while its start promise was
\* unsettled gets no update hook call afterwards.
C37_RemovedWhileInitializingNeverUpdated ==
    \A c \in AsyncComps : requested[c] => Ev("update", c) \notin Range(log)

\* C38: a component in the pending-removal set is disposed and dropped by
\* the second update() after it was put there at the latest, whether or not
\* the start promises settle.
C38_RemovedWithinTwoUpdates ==
    \A c \in AsyncComps : frames[c] < 2

====
